---------------------------- MODULE Spec2Model ----------------------------
(***************************************************************************)
(* The pong server of new_game-pin_pong as a state machine.                *)
(*                                                                         *)
(* The repository holds two builds of the server with an AI opponent:      *)
(*   "difficulty"  src/unnamed/part_000 lines 1-275: joinGame{mode},       *)
(*                 a ready flag, DIFFICULTY_SETTINGS and one AI refresh    *)
(*                 timer per room, point-equality paddle collision;        *)
(*   "keyboard"    src/pon-server.js lines 257-703: a connection joins at  *)
(*                 once, keyPress/keyRelease set a paddle's vy, an AI      *)
(*                 agent object per room, interval paddle collision.       *)
(* The variable build says which of the two is running; it never changes.  *)
(* (src/pon-server.js lines 1-255 is an earlier build without AI.)         *)
(*                                                                         *)
(* Every callback of the single-threaded event loop (a socket handler, the *)
(* 60 Hz game loop, an AI timer) is one atomic action.  Time is abstracted:*)
(* callbacks may interleave in any order.                                  *)
(*                                                                         *)
(* Lengths and speeds are integers counting 1/Q of a board unit, so that   *)
(* the +-0.25 jitter of the keyboard build is an integer.                  *)
(***************************************************************************)
EXTENDS Integers, Sequences, FiniteSets, TLC

VARIABLES
    build,       \* "difficulty" | "keyboard"
    gameRooms,   \* the registry: room id -> room object
    detached,    \* room objects deleted from gameRooms that a live timer closure still holds
    nextRoomId,  \* the counter behind `room${nextRoomId++}`
    sockets,     \* socket id -> [status, roomId, isPlayer1, joined]
    timers,      \* live setInterval closures of the AI: handle -> what the closure captured
    emitted,     \* the messages the last callback emitted
    limit,       \* the scope of the run: sockets, events and repeated joins allowed
    events,      \* timer firings (game loop, AI) and in-room messages so far
    rejoins      \* joinGame messages from sockets that had joined before, so far

vars == <<build, limit, gameRooms, detached, nextRoomId, sockets, timers, emitted,
          events, rejoins>>

counters == <<events, rejoins>>

----------------------------------------------------------------------------
(* Bounds of the model.  Spec bounds the matchmaking runs, SpecPlay the runs *)
(* with paddle, key and difficulty messages, SpecMessages those with one     *)
(* such message, SpecDifficulty the runs of the difficulty build alone,      *)
(* SpecPhysics the ticks from a drawn game state, SpecRejoin the runs in     *)
(* which a socket sends joinGame again.                                      *)

NumSocketsD == 2

NumSocketsK == 3

MaxEvents == 2

PlaySockets == 2

PlayEvents == 4

(* SpecMessages: sockets that connect; timer firings and messages *)
MessageSockets == 2

MessageEvents == 1

(* SpecDifficulty: sockets that connect; timer firings and messages *)
DifficultySockets == 2

DifficultyEvents == 2

(* SpecAgent: firings of the AI timer and of the game loop *)
AgentEvents == 2

(* SpecKeys: sockets that connect; timer firings, ticks and messages *)
KeySockets == 2

KeyEvents == 2

(* SpecPhysics: firings of the game loop from each drawn game state *)
PhysicsTicks == 2

RejoinSockets == 2

MaxRejoins == 1

RejoinEvents == 1

(* Resolution of lengths: 1/Q board unit *)
Q == 8

L(n) == n * Q

Min(a, b) == IF a < b THEN a ELSE b

Max(a, b) == IF a > b THEN a ELSE b

Abs(a) == IF a < 0 THEN -a ELSE a

MinOf(S) == CHOOSE m \in S : \A n \in S : m <= n

Sockets ==
    1..Max(Max(NumSocketsD, NumSocketsK),
           Max(PlaySockets, Max(RejoinSockets, DifficultySockets)))

----------------------------------------------------------------------------
(* Messages.  io.to(roomId).emit reaches the open sockets that joined the  *)
(* socket.io room; socket.emit reaches the socket itself.                  *)

Msg(to, ev) == [to |-> to, ev |-> ev, isPlayer1 |-> FALSE, roomId |-> 0, playersInRoom |-> 0]

Assignment(to, p1, rid, n) ==
    [to |-> to, ev |-> "playerAssignment", isPlayer1 |-> p1, roomId |-> rid, playersInRoom |-> n]

(* gameUpdate carries room.gameState: roomId names the room it is the state of *)
Update(to, rid) ==
    [to |-> to, ev |-> "gameUpdate", isPlayer1 |-> FALSE, roomId |-> rid, playersInRoom |-> 0]

Members(socks, rid) == {s \in Sockets : socks[s].status = "open" /\ rid \in socks[s].joined}

Broadcast(socks, rid, ev) == {Msg(s, ev) : s \in Members(socks, rid)}

NoRooms == [r \in {} |-> 0]

NoSocket == [status |-> "idle", roomId |-> 0, isPlayer1 |-> FALSE, joined |-> {}]

(* A closed socket receives no event and is never looked at again *)
ClosedSocket == [status |-> "closed", roomId |-> 0, isPlayer1 |-> FALSE, joined |-> {}]

(* setInterval returns a fresh handle *)
NewHandle(tm) == MinOf({h \in 1..(Cardinality(DOMAIN tm) + 1) : h \notin DOMAIN tm})

(* clearInterval(h) *)
clearInterval(tm, h) == [k \in DOMAIN tm \ {h} |-> tm[k]]

----------------------------------------------------------------------------
(* The difficulty build: src/unnamed/part_000 *)

Levels == {"easy", "medium", "hard"}

DIFFICULTY_SETTINGS ==
    [easy   |-> [paddleSpeed |-> L(3), errorRange |-> L(40), refreshRate |-> 1500],
     medium |-> [paddleSpeed |-> L(5), errorRange |-> L(20), refreshRate |-> 1000],
     hard   |-> [paddleSpeed |-> L(8), errorRange |-> L(5),  refreshRate |-> 500]]

createGameStateD ==
    [ball    |-> [x |-> L(400), y |-> L(200), vx |-> L(2), vy |-> L(2), radius |-> L(10)],
     player1 |-> [x |-> L(10), y |-> L(150), width |-> L(10), height |-> L(100), score |-> 0],
     player2 |-> [x |-> L(780), y |-> L(150), width |-> L(10), height |-> L(100), score |-> 0,
                  targetY |-> L(150)]]

(* A room object as findAvailableRoom and joinGame create it; aiTimer 0 is undefined *)
NewRoomD(ai) ==
    [players |-> <<>>, gameState |-> createGameStateD, aiEnabled |-> ai, ready |-> FALSE,
     aiDifficulty |-> "medium", aiTimer |-> 0]

(* AvailableD seeing only the rooms without a player *)
AvailableDEmptyOnly(rooms) ==
    {r \in DOMAIN rooms : Len(rooms[r].players) < 1 /\ ~rooms[r].aiEnabled}

AvailableD(rooms) == {r \in DOMAIN rooms : Len(rooms[r].players) < 2 /\ ~rooms[r].aiEnabled}

(* for..in visits the keys in insertion order, which is the order of the ids *)
findAvailableRoomD(rooms, nxt) ==
    IF AvailableD(rooms) # {}
    THEN [roomId |-> MinOf(AvailableD(rooms)), rooms |-> rooms, nextRoomId |-> nxt]
    ELSE [roomId |-> nxt, rooms |-> (nxt :> NewRoomD(FALSE)) @@ rooms, nextRoomId |-> nxt + 1]

(* Math.random() * errorRange - errorRange / 2 lies in [-errorRange/2, errorRange/2) *)
ErrorSamplesD(errorRange) == {-(errorRange \div 2), (errorRange - 1) \div 2}

(* (paddle.x - ball.x) / ball.vx * ball.vy; exact, as vx divides the distance *)
refreshAILogic(room, error) ==
    LET ball == room.gameState.ball
        paddle == room.gameState.player2
        predictedY == ball.y + (ball.vy * (paddle.x - ball.x)) \div ball.vx
        clamped == Max(0, Min(L(400) - paddle.height, predictedY))
    IN  IF ball.vx > 0
        THEN [room EXCEPT !.gameState.player2.targetY = clamped + error]
        ELSE [room EXCEPT !.gameState.player2.targetY = L(200) - paddle.height \div 2]

updateAIPaddle(paddle, difficulty) ==
    LET paddleSpeed == DIFFICULTY_SETTINGS[difficulty].paddleSpeed
    IN  IF paddle.y < paddle.targetY
        THEN [paddle EXCEPT !.y = @ + Min(paddleSpeed, paddle.targetY - paddle.y)]
        ELSE IF paddle.y > paddle.targetY
             THEN [paddle EXCEPT !.y = @ - Min(paddleSpeed, paddle.y - paddle.targetY)]
             ELSE paddle

(* resetBall that puts the ball back on the centre line only *)
resetBallDKeepingY(gs, rnd) ==
    [gs EXCEPT !.ball.x = L(400),
               !.ball.vx = IF gs.ball.vx > 0 THEN -L(2) ELSE L(2),
               !.ball.vy = IF rnd THEN L(2) ELSE -L(2)]

(* resetBall that serves the ball at a horizontal speed of 3 *)
resetBallDFaster(gs, rnd) ==
    [gs EXCEPT !.ball.x = L(400), !.ball.y = L(200),
               !.ball.vx = IF gs.ball.vx > 0 THEN -L(3) ELSE L(3),
               !.ball.vy = IF rnd THEN L(2) ELSE -L(2)]

(* rnd is Math.random() > 0.5 *)
resetBallD(gs, rnd) ==
    [gs EXCEPT !.ball.x = L(400), !.ball.y = L(200),
               !.ball.vx = IF gs.ball.vx > 0 THEN -L(2) ELSE L(2),
               !.ball.vy = IF rnd THEN L(2) ELSE -L(2)]

updateGameD(gameState, rnd) ==
    LET x1 == gameState.ball.x + gameState.ball.vx
        y1 == gameState.ball.y + gameState.ball.vy
        vy1 == IF y1 <= 0 \/ y1 >= L(400) THEN -gameState.ball.vy ELSE gameState.ball.vy
        vxa == IF /\ x1 = L(20)
                  /\ y1 >= gameState.player1.y
                  /\ y1 <= gameState.player1.y + L(100)
               THEN -gameState.ball.vx ELSE gameState.ball.vx
        vxb == IF /\ x1 = L(780)
                  /\ y1 >= gameState.player2.y
                  /\ y1 <= gameState.player2.y + L(100)
               THEN -vxa ELSE vxa
        gs1 == [gameState EXCEPT !.ball.x = x1, !.ball.y = y1, !.ball.vx = vxb, !.ball.vy = vy1]
    IN  IF x1 < 0
        THEN resetBallD([gs1 EXCEPT !.player2.score = @ + 1], rnd)
        ELSE IF x1 > L(800)
             THEN resetBallD([gs1 EXCEPT !.player1.score = @ + 1], rnd)
             ELSE gs1

(* The draws of Math.random() one updateGame call makes: one when it resets the ball *)
RandomsD(gameState) ==
    LET x1 == gameState.ball.x + gameState.ball.vx
    IN  IF x1 < 0 \/ x1 > L(800) THEN BOOLEAN ELSE {TRUE}

(* startAIInterval without the clearInterval of the previous timer *)
startAIIntervalKeepingOld(rooms, tm, roomId) ==
    IF roomId \notin DOMAIN rooms \/ ~rooms[roomId].aiEnabled
    THEN [rooms |-> rooms, timers |-> tm]
    ELSE LET room == rooms[roomId]
             refreshRate == DIFFICULTY_SETTINGS[room.aiDifficulty].refreshRate
             h == NewHandle(tm)
         IN  [rooms |-> [rooms EXCEPT ![roomId].aiTimer = h],
              timers |-> (h :> [room |-> roomId, refreshRate |-> refreshRate]) @@ tm]

(* startAIInterval that starts no timer *)
startAIIntervalNever(rooms, tm, roomId) == [rooms |-> rooms, timers |-> tm]

(* startAIInterval on the room the registry holds under roomId.  The closure *)
(* captures the room object and the refresh rate read now.                   *)
startAIInterval(rooms, tm, roomId) ==
    IF roomId \notin DOMAIN rooms \/ ~rooms[roomId].aiEnabled
    THEN [rooms |-> rooms, timers |-> tm]
    ELSE LET room == rooms[roomId]
             refreshRate == DIFFICULTY_SETTINGS[room.aiDifficulty].refreshRate
             cleared == IF room.aiTimer # 0 THEN clearInterval(tm, room.aiTimer) ELSE tm
             h == NewHandle(cleared)
         IN  [rooms |-> [rooms EXCEPT ![roomId].aiTimer = h],
              timers |-> (h :> [room |-> roomId, refreshRate |-> refreshRate]) @@ cleared]

----------------------------------------------------------------------------
(* The keyboard build: src/pon-server.js from line 257 *)

createGameStateK ==
    [ball    |-> [x |-> L(400), y |-> L(200), vx |-> L(2), vy |-> L(2), radius |-> L(10)],
     player1 |-> [x |-> L(10), y |-> L(150), width |-> L(10), height |-> L(100), score |-> 0,
                  vy |-> 0, speed |-> L(5)],
     player2 |-> [x |-> L(780), y |-> L(150), width |-> L(10), height |-> L(100), score |-> 0,
                  vy |-> 0, speed |-> L(5)]]

(* room.ai is the reference to the agent object: the handle of the timer whose *)
(* closure holds it, 0 for null                                                *)
NewRoomK == [players |-> <<>>, humanCount |-> 0, gameState |-> createGameStateK, ai |-> 0]

(* AvailableK admitting a third human *)
AvailableKBelowThree(rooms) == {r \in DOMAIN rooms : rooms[r].humanCount < 3}

AvailableK(rooms) == {r \in DOMAIN rooms : rooms[r].humanCount < 2}

findAvailableRoomK(rooms, nxt) ==
    IF AvailableK(rooms) # {}
    THEN [roomId |-> MinOf(AvailableK(rooms)), rooms |-> rooms, nextRoomId |-> nxt]
    ELSE [roomId |-> nxt, rooms |-> (nxt :> NewRoomK) @@ rooms, nextRoomId |-> nxt + 1]

handleKeyPress(room, playerIndex, key) ==
    LET speed == IF playerIndex = 1 THEN room.gameState.player1.speed
                 ELSE room.gameState.player2.speed
        vy == IF key = "up" THEN -speed ELSE speed
    IN  IF key \notin {"up", "down"}
        THEN room
        ELSE IF playerIndex = 1
             THEN [room EXCEPT !.gameState.player1.vy = vy]
             ELSE [room EXCEPT !.gameState.player2.vy = vy]

handleKeyRelease(room, playerIndex, key) ==
    LET vy == IF playerIndex = 1 THEN room.gameState.player1.vy ELSE room.gameState.player2.vy
        stop == (key = "up" /\ vy < 0) \/ (key = "down" /\ vy > 0)
    IN  IF ~stop
        THEN room
        ELSE IF playerIndex = 1
             THEN [room EXCEPT !.gameState.player1.vy = 0]
             ELSE [room EXCEPT !.gameState.player2.vy = 0]

(* `AI-${roomId}`: an id no socket has *)
AIId(roomId) == -roomId

(* The agent object attachAIAgentToRoom creates; reactionJitter in hundredths. *)
(* lastPerception, a wall-clock stamp nothing reads, is left out.              *)
NewAgent(roomId) ==
    [id |-> AIId(roomId), playerIndex |-> 2, perceptionInterval |-> 1000, targetY |-> L(200),
     pressing |-> "none", reactionJitter |-> 12]

attachAIAgentToRoom(rooms, tm, roomId) ==
    IF roomId \notin DOMAIN rooms \/ rooms[roomId].ai # 0
    THEN [rooms |-> rooms, timers |-> tm]
    ELSE LET h == NewHandle(tm)
             ai == NewAgent(roomId)
         IN  [rooms |-> [rooms EXCEPT ![roomId].ai = h],
              timers |-> (h :> [room |-> roomId, refreshRate |-> ai.perceptionInterval,
                                ai |-> ai]) @@ tm]

(* detachAIAgentFromRoom without its clearInterval *)
detachKeepingTimer(rooms, tm, roomId) ==
    IF roomId \notin DOMAIN rooms \/ rooms[roomId].ai = 0
    THEN [rooms |-> rooms, timers |-> tm]
    ELSE [rooms |-> [rooms EXCEPT ![roomId].ai = 0], timers |-> tm]

(* The AI entry registered as a human *)
aiPlayerAsHuman(id) == [id |-> id, isPlayer1 |-> FALSE, isAI |-> FALSE]

(* The entry the handlers push to room.players for the attached agent *)
aiPlayer(id) == [id |-> id, isPlayer1 |-> FALSE, isAI |-> TRUE]

(* detachAIAgentFromRoom that also releases the key the agent holds *)
detachReleasingKey(rooms, tm, roomId) ==
    IF roomId \notin DOMAIN rooms \/ rooms[roomId].ai = 0
    THEN [rooms |-> rooms, timers |-> tm]
    ELSE [rooms |-> [rooms EXCEPT ![roomId].ai = 0, ![roomId].gameState.player2.vy = 0],
          timers |-> clearInterval(tm, rooms[roomId].ai)]

detachAIAgentFromRoom(rooms, tm, roomId) ==
    IF roomId \notin DOMAIN rooms \/ rooms[roomId].ai = 0
    THEN [rooms |-> rooms, timers |-> tm]
    ELSE [rooms |-> [rooms EXCEPT ![roomId].ai = 0],
          timers |-> clearInterval(tm, rooms[roomId].ai)]

(* The least integer not below a / d, for d > 0 *)
CeilDiv(a, d) == -((-a) \div d)

(* The iterations of the while loop of aiPerceiveAndAct, from this one on, up to *)
(* and including the first that bounces, breaks or is the last allowed           *)
PlainSteps(s, predictedX, predictedY, vx, vy, steps) ==
    LET reach == IF s.ball.vx > 0
                 THEN Max(1, CeilDiv(s.player2.x - s.player2.width - predictedX, vx))
                 ELSE IF s.ball.vx < 0
                      THEN Max(1, CeilDiv(predictedX - s.player2.x - s.player2.width, -vx))
                      ELSE 5000
        bounce == IF vy < 0
                  THEN Max(1, CeilDiv(predictedY - s.ball.radius, -vy))
                  ELSE IF vy > 0
                       THEN Max(1, CeilDiv(L(400) - s.ball.radius - predictedY, vy))
                       ELSE IF \/ predictedY - s.ball.radius <= 0
                               \/ predictedY + s.ball.radius >= L(400)
                            THEN 1 ELSE 5000
    IN  Min(Min(reach, bounce), 5000 - steps)

RECURSIVE Predict(_, _, _, _, _, _)
(* The while loop of aiPerceiveAndAct: the predictedX, predictedY and steps it  *)
(* leaves.  The iterations that neither bounce nor break only add the velocity, *)
(* and are taken at once.                                                       *)
Predict(s, predictedX, predictedY, vx, vy, steps) ==
    IF steps >= 5000
    THEN [x |-> predictedX, y |-> predictedY, steps |-> steps]
    ELSE LET n == PlainSteps(s, predictedX, predictedY, vx, vy, steps)
             x1 == predictedX + n * vx
             yr == predictedY + n * vy
             top == yr - s.ball.radius <= 0
             bottom == ~top /\ yr + s.ball.radius >= L(400)
             y1 == IF top THEN s.ball.radius
                   ELSE IF bottom THEN L(400) - s.ball.radius ELSE yr
             vy1 == IF top \/ bottom THEN -vy ELSE vy
         IN  IF \/ s.ball.vx > 0 /\ x1 >= s.player2.x - s.player2.width
                \/ s.ball.vx < 0 /\ x1 <= s.player2.x + s.player2.width
             THEN [x |-> x1, y |-> y1, steps |-> steps + n - 1]
             ELSE Predict(s, x1, y1, vx, vy1, steps + n)

(* Math.random() * 50 * reactionJitter lies in [0, 50 * reactionJitter) *)
ErrorSamplesK(reactionJitter) == {0, (L(50) * reactionJitter) \div 100 - 1}

(* The draws of Math.random() one call of aiPerceiveAndAct makes *)
RandomsAI(room, ai) ==
    [vx : IF room.gameState.ball.vx = 0 THEN BOOLEAN ELSE {TRUE},
     error : ErrorSamplesK(ai.reactionJitter),
     pickSign : BOOLEAN,
     mistake : BOOLEAN]

(* A call of handleKeyPress ("press") or handleKeyRelease ("release") *)
KeyCall(op, key) == [op |-> op, key |-> key]

RECURSIVE ApplyKeyCalls(_, _, _)
(* The room after the calls, made in their order for player playerIndex *)
ApplyKeyCalls(room, playerIndex, calls) ==
    IF calls = <<>>
    THEN room
    ELSE ApplyKeyCalls(IF Head(calls).op = "press"
                       THEN handleKeyPress(room, playerIndex, Head(calls).key)
                       ELSE handleKeyRelease(room, playerIndex, Head(calls).key),
                       playerIndex, Tail(calls))

(* ActuationCalls pressing the wanted key without releasing the held one *)
ActuationCallsPressOnly(pressing, want) ==
    IF want = "none"
    THEN IF pressing # "none" THEN <<KeyCall("release", pressing)>> ELSE <<>>
    ELSE IF pressing = want THEN <<>> ELSE <<KeyCall("press", want)>>

(* The handler calls of the if / else-if / else on delta, for the key the *)
(* agent holds and the one delta asks for                                 *)
ActuationCalls(pressing, want) ==
    IF want = "none"
    THEN IF pressing # "none" THEN <<KeyCall("release", pressing)>> ELSE <<>>
    ELSE IF pressing = want
         THEN <<>>
         ELSE (IF pressing # "none" THEN <<KeyCall("release", pressing)>> ELSE <<>>)
              \o <<KeyCall("press", want)>>

(* aiPerceiveAndAct of the closure holding agent ai, on the room it captured. *)
(* rnd.vx is Math.random() > 0.5, rnd.mistake is Math.random() < 0.05.  calls *)
(* are the handler calls it makes, in their order.                            *)
aiPerceiveAndAct(room, ai, rnd) ==
    LET s == room.gameState
        vx == IF s.ball.vx = 0 THEN (IF rnd.vx THEN L(2) ELSE -L(2)) ELSE s.ball.vx
        intercept == Max(0, Min(L(400), Predict(s, s.ball.x, s.ball.y, vx, s.ball.vy, 0).y))
        targetY == intercept + (IF rnd.pickSign THEN rnd.error ELSE -rnd.error)
        delta == targetY - (s.player2.y + s.player2.height \div 2)
        threshold == L(8)
        want == IF delta < -threshold THEN "up" ELSE IF delta > threshold THEN "down" ELSE "none"
        mistimed == rnd.mistake /\ want # "none"
        calls == ActuationCalls(ai.pressing, want)
                 \o (IF mistimed THEN <<KeyCall("release", want)>> ELSE <<>>)
    IN  [room |-> ApplyKeyCalls(room, ai.playerIndex, calls),
         ai |-> [ai EXCEPT !.targetY = targetY,
                           !.pressing = IF mistimed THEN "none" ELSE want],
         calls |-> calls]

(* (Math.random() - 0.5) * 0.5 lies in [-0.25, 0.25) *)
JitterSamples == {-(Q \div 4), 0, (Q - 1) \div 4}

(* MovedK advancing the ball by twice its velocity *)
MovedKTwice(gameState) ==
    LET x1 == gameState.ball.x + 2 * gameState.ball.vx
        y1 == gameState.ball.y + 2 * gameState.ball.vy
        r == gameState.ball.radius
    IN  [gameState EXCEPT
            !.ball.x = x1, !.ball.y = y1,
            !.ball.vy = IF y1 - r <= 0 \/ y1 + r >= L(400) THEN -@ ELSE @,
            !.player1.y = Max(0, Min(L(300), @ + gameState.player1.vy)),
            !.player2.y = Max(0, Min(L(300), @ + gameState.player2.vy))]

(* updateGame up to the paddle collisions: ball moved, walls, paddles moved *)
MovedK(gameState) ==
    LET x1 == gameState.ball.x + gameState.ball.vx
        y1 == gameState.ball.y + gameState.ball.vy
        r == gameState.ball.radius
    IN  [gameState EXCEPT
            !.ball.x = x1, !.ball.y = y1,
            !.ball.vy = IF y1 - r <= 0 \/ y1 + r >= L(400) THEN -@ ELSE @,
            !.player1.y = Max(0, Min(L(300), @ + gameState.player1.vy)),
            !.player2.y = Max(0, Min(L(300), @ + gameState.player2.vy))]

Hit1K(m) ==
    /\ m.ball.x - m.ball.radius <= m.player1.x + m.player1.width
    /\ m.ball.x - m.ball.radius >= m.player1.x
    /\ m.ball.y >= m.player1.y
    /\ m.ball.y <= m.player1.y + m.player1.height

Hit2K(m) ==
    /\ m.ball.x + m.ball.radius >= m.player2.x
    /\ m.ball.x + m.ball.radius <= m.player2.x + m.player2.width
    /\ m.ball.y >= m.player2.y
    /\ m.ball.y <= m.player2.y + m.player2.height

(* resetBall that also gives Left a point *)
resetBallKScoringLeft(gs, rx, ry) ==
    [gs EXCEPT !.ball.x = L(400), !.ball.y = L(200),
               !.ball.vx = IF rx THEN L(2) ELSE -L(2),
               !.ball.vy = IF ry THEN L(2) ELSE -L(2),
               !.player1.score = @ + 1]

(* rx and ry are the two Math.random() > 0.5 of resetBall *)
resetBallK(gs, rx, ry) ==
    [gs EXCEPT !.ball.x = L(400), !.ball.y = L(200),
               !.ball.vx = IF rx THEN L(2) ELSE -L(2),
               !.ball.vy = IF ry THEN L(2) ELSE -L(2)]

(* updateGame reversing vx at a paddle, as the exact-plane test does *)
updateGameKReversing(gameState, rnd) ==
    LET m == MovedK(gameState)
        a == IF Hit1K(m)
             THEN [m EXCEPT !.ball.vx = -@, !.ball.vy = @ + rnd.j1] ELSE m
        b == IF Hit2K(a)
             THEN [a EXCEPT !.ball.vx = -@, !.ball.vy = @ + rnd.j2] ELSE a
    IN  IF b.ball.x < 0
        THEN resetBallK([b EXCEPT !.player2.score = @ + 1], rnd.rx, rnd.ry)
        ELSE IF b.ball.x > L(800)
             THEN resetBallK([b EXCEPT !.player1.score = @ + 1], rnd.rx, rnd.ry)
             ELSE b

updateGameK(gameState, rnd) ==
    LET m == MovedK(gameState)
        a == IF Hit1K(m)
             THEN [m EXCEPT !.ball.vx = Abs(@), !.ball.vy = @ + rnd.j1] ELSE m
        b == IF Hit2K(a)
             THEN [a EXCEPT !.ball.vx = -Abs(@), !.ball.vy = @ + rnd.j2] ELSE a
    IN  IF b.ball.x < 0
        THEN resetBallK([b EXCEPT !.player2.score = @ + 1], rnd.rx, rnd.ry)
        ELSE IF b.ball.x > L(800)
             THEN resetBallK([b EXCEPT !.player1.score = @ + 1], rnd.rx, rnd.ry)
             ELSE b

(* The draws of Math.random() one updateGame call makes *)
RandomsK(gameState) ==
    LET m == MovedK(gameState)
        off == m.ball.x < 0 \/ m.ball.x > L(800)
    IN  [j1 : IF Hit1K(m) THEN JitterSamples ELSE {0},
         j2 : IF Hit2K(m) THEN JitterSamples ELSE {0},
         rx : IF off THEN BOOLEAN ELSE {TRUE},
         ry : IF off THEN BOOLEAN ELSE {TRUE}]

----------------------------------------------------------------------------
(* The state after the server has started *)
Fresh ==
    /\ build \in {"difficulty", "keyboard"}
    /\ gameRooms = NoRooms
    /\ detached = NoRooms
    /\ nextRoomId = 1
    /\ sockets = [s \in Sockets |-> NoSocket]
    /\ timers = NoRooms
    /\ emitted = {}
    /\ events = 0
    /\ rejoins = 0

(* io.on('connection') of part_000: the handlers are registered, nothing else. *)
(* Socket ids are opaque, so sockets connect in the order of their ids.        *)
ConnectD(s) ==
    /\ build = "difficulty"
    /\ s <= limit.sockets
    /\ sockets[s].status = "idle"
    /\ \A o \in Sockets : o < s => sockets[o].status # "idle"
    /\ sockets' = [sockets EXCEPT ![s].status = "open"]
    /\ emitted' = {}
    /\ UNCHANGED <<build, limit, gameRooms, detached, nextRoomId, timers, counters>>

(* socket.on("joinGame") of part_000.  Any mode other than "AI" is PvP. *)
JoinGameD(s, mode) ==
    /\ build = "difficulty"
    /\ sockets[s].status = "open"
    /\ sockets[s].roomId # 0 => rejoins < limit.rejoins
    /\ rejoins' = IF sockets[s].roomId = 0 THEN rejoins ELSE rejoins + 1
    /\ LET found == IF mode = "AI"
                    THEN [roomId |-> nextRoomId,
                          rooms |-> (nextRoomId :> NewRoomD(TRUE)) @@ gameRooms,
                          nextRoomId |-> nextRoomId + 1]
                    ELSE LET f == findAvailableRoomD(gameRooms, nextRoomId)
                         IN  [f EXCEPT !.rooms[f.roomId].aiEnabled = FALSE]
           roomId == found.roomId
           isPlayer1 == Len(found.rooms[roomId].players) = 0
           pushed == [found.rooms EXCEPT
                         ![roomId].players = Append(@, [id |-> s, isPlayer1 |-> isPlayer1])]
           socks == [sockets EXCEPT ![s].roomId = roomId, ![s].isPlayer1 = isPlayer1,
                                    ![s].joined = @ \cup {roomId}]
           first == {Update(s, roomId),
                     Assignment(s, isPlayer1, roomId, Len(pushed[roomId].players))}
       IN  /\ nextRoomId' = found.nextRoomId
           /\ sockets' = socks
           /\ IF pushed[roomId].aiEnabled
              THEN LET st == startAIInterval([pushed EXCEPT ![roomId].ready = TRUE],
                                             timers, roomId)
                   IN  /\ gameRooms' = st.rooms
                       /\ timers' = st.timers
                       /\ emitted' = first \cup Broadcast(socks, roomId, "gameReady")
              ELSE IF Len(pushed[roomId].players) = 2
                   THEN /\ gameRooms' = [pushed EXCEPT ![roomId].ready = TRUE]
                        /\ timers' = timers
                        /\ emitted' = first \cup Broadcast(socks, roomId, "gameReady")
                   ELSE /\ gameRooms' = [pushed EXCEPT ![roomId].ready = FALSE]
                        /\ timers' = timers
                        /\ emitted' = first \cup {Msg(s, "waitingForPlayer")}
    /\ UNCHANGED <<build, limit, detached, events>>

(* setDifficulty taking a level it does not know for "hard" *)
SetDifficultyDefaulting(s, level) ==
    /\ build = "difficulty"
    /\ events < limit.events
    /\ sockets[s].status = "open"
    /\ IF sockets[s].roomId \in DOMAIN gameRooms
       THEN LET known == IF level \in Levels THEN level ELSE "hard"
                st == startAIInterval(
                          [gameRooms EXCEPT ![sockets[s].roomId].aiDifficulty = known],
                          timers, sockets[s].roomId)
            IN  /\ gameRooms' = st.rooms
                /\ timers' = st.timers
       ELSE UNCHANGED <<gameRooms, timers>>
    /\ emitted' = {}
    /\ events' = events + 1
    /\ UNCHANGED <<build, limit, detached, nextRoomId, sockets, rejoins>>

(* socket.on('setDifficulty') of part_000 *)
SetDifficultyD(s, level) ==
    /\ build = "difficulty"
    /\ events < limit.events
    /\ sockets[s].status = "open"
    /\ IF sockets[s].roomId \in DOMAIN gameRooms /\ level \in Levels
       THEN LET st == startAIInterval(
                          [gameRooms EXCEPT ![sockets[s].roomId].aiDifficulty = level],
                          timers, sockets[s].roomId)
            IN  /\ gameRooms' = st.rooms
                /\ timers' = st.timers
       ELSE UNCHANGED <<gameRooms, timers>>
    /\ emitted' = {}
    /\ events' = events + 1
    /\ UNCHANGED <<build, limit, detached, nextRoomId, sockets, rejoins>>

(* paddleMove telling every open socket when the sender has no room *)
PaddleMoveDReporting(s, y) ==
    /\ build = "difficulty"
    /\ events < limit.events
    /\ sockets[s].status = "open"
    /\ LET rid == sockets[s].roomId
       IN  IF rid \notin DOMAIN gameRooms
           THEN /\ UNCHANGED gameRooms
                /\ emitted' = {Msg(o, "error") : o \in {p \in Sockets : sockets[p].status = "open"}}
           ELSE /\ emitted' = {}
                /\ IF sockets[s].isPlayer1
                   THEN gameRooms' = [gameRooms EXCEPT
                                         ![rid].gameState.player1.y = Max(0, Min(L(300), y))]
                   ELSE IF ~gameRooms[rid].aiEnabled
                        THEN gameRooms' = [gameRooms EXCEPT
                                              ![rid].gameState.player2.y = Max(0, Min(L(300), y))]
                        ELSE UNCHANGED gameRooms
    /\ events' = events + 1
    /\ UNCHANGED <<build, limit, detached, nextRoomId, sockets, timers, rejoins>>

(* socket.on('paddleMove') of part_000 *)
PaddleMoveD(s, y) ==
    /\ build = "difficulty"
    /\ events < limit.events
    /\ sockets[s].status = "open"
    /\ LET rid == sockets[s].roomId
       IN  IF rid \notin DOMAIN gameRooms
           THEN UNCHANGED gameRooms
           ELSE IF sockets[s].isPlayer1
                THEN gameRooms' = [gameRooms EXCEPT
                                      ![rid].gameState.player1.y = Max(0, Min(L(300), y))]
                ELSE IF ~gameRooms[rid].aiEnabled
                     THEN gameRooms' = [gameRooms EXCEPT
                                           ![rid].gameState.player2.y = Max(0, Min(L(300), y))]
                     ELSE UNCHANGED gameRooms
    /\ emitted' = {}
    /\ events' = events + 1
    /\ UNCHANGED <<build, limit, detached, nextRoomId, sockets, timers, rejoins>>

(* socket.on('disconnect') of part_000; the socket has left its socket.io rooms *)
DisconnectD(s) ==
    /\ build = "difficulty"
    /\ sockets[s].status = "open"
    /\ LET rid == sockets[s].roomId
           socks == [sockets EXCEPT ![s] = ClosedSocket]
           NotMe(p) == p.id # s
       IN  /\ sockets' = socks
           /\ IF rid \notin DOMAIN gameRooms
              THEN /\ UNCHANGED gameRooms
                   /\ emitted' = {}
              ELSE LET players == SelectSeq(gameRooms[rid].players, NotMe)
                   IN  /\ gameRooms' = [gameRooms EXCEPT
                              ![rid].players = players,
                              ![rid].aiEnabled = IF Len(players) = 1 THEN TRUE ELSE @]
                       /\ emitted' = IF Len(players) > 0
                                     THEN Broadcast(socks, rid, "playerDisconnected")
                                     ELSE {}
    /\ UNCHANGED <<build, limit, detached, nextRoomId, timers, counters>>

(* SteppedD without the test of room.ready *)
SteppedIgnoringReady(rooms) == {r \in DOMAIN rooms : Len(rooms[r].players) > 0}

(* The rooms one firing of the game loop steps, and those it deletes *)
SteppedD(rooms) == {r \in DOMAIN rooms : rooms[r].ready /\ Len(rooms[r].players) > 0}

DeletedD(rooms) == {r \in DOMAIN rooms : rooms[r].ready /\ Len(rooms[r].players) = 0}

(* The room objects one iteration of the loop body can leave, one per draw *)
StepRoomD(room) ==
    LET gs == IF room.aiEnabled
              THEN [room.gameState EXCEPT !.player2 = updateAIPaddle(@, room.aiDifficulty)]
              ELSE room.gameState
    IN  {[room EXCEPT !.gameState = updateGameD(gs, rnd)] : rnd \in RandomsD(gs)}

RECURSIVE LoopOutcomes(_, _, _)
(* The registries a loop can leave: each room r of R takes one of the results step[r] *)
LoopOutcomes(rooms, R, step) ==
    IF R = {}
    THEN {rooms}
    ELSE LET r == MinOf(R)
         IN  UNION {{[rs EXCEPT ![r] = g] : g \in step[r]} :
                       rs \in LoopOutcomes(rooms, R \ {r}, step)}

(* setInterval(..., 1000/60) of part_000.  A deleted room's timer is not cleared: *)
(* its callback keeps the room object alive.                                     *)
GameLoopD ==
    /\ build = "difficulty"
    /\ events < limit.events
    /\ events' = events + 1
    /\ \E stepped \in LoopOutcomes(gameRooms, SteppedD(gameRooms),
                                   [r \in SteppedD(gameRooms) |-> StepRoomD(gameRooms[r])]) :
          gameRooms' = [r \in DOMAIN gameRooms \ DeletedD(gameRooms) |-> stepped[r]]
    /\ detached' = [r \in DOMAIN detached \cup
                          {d \in DeletedD(gameRooms) : gameRooms[d].aiTimer \in DOMAIN timers} |->
                       IF r \in DOMAIN detached THEN detached[r] ELSE gameRooms[r]]
    /\ emitted' = UNION {{Update(s, r) : s \in Members(sockets, r)} : r \in SteppedD(gameRooms)}
    /\ UNCHANGED <<build, limit, nextRoomId, sockets, timers, rejoins>>

(* The callback of the setInterval of startAIInterval: refreshAILogic(room) on *)
(* the room object the closure captured                                        *)
AITimerD(h) ==
    /\ build = "difficulty"
    /\ events < limit.events
    /\ h \in DOMAIN timers
    /\ LET rid == timers[h].room
           room == IF rid \in DOMAIN gameRooms THEN gameRooms[rid] ELSE detached[rid]
       IN  \E error \in ErrorSamplesD(DIFFICULTY_SETTINGS[room.aiDifficulty].errorRange) :
              IF rid \in DOMAIN gameRooms
              THEN /\ gameRooms' = [gameRooms EXCEPT ![rid] = refreshAILogic(room, error)]
                   /\ UNCHANGED detached
              ELSE /\ detached' = [detached EXCEPT ![rid] = refreshAILogic(room, error)]
                   /\ UNCHANGED gameRooms
    /\ emitted' = {}
    /\ events' = events + 1
    /\ UNCHANGED <<build, limit, nextRoomId, sockets, timers, rejoins>>

----------------------------------------------------------------------------
(* The callbacks of the keyboard build *)

(* io.on('connection') of pon-server.js: the socket is matched at once *)
ConnectK(s) ==
    /\ build = "keyboard"
    /\ s <= limit.sockets
    /\ sockets[s].status = "idle"
    /\ \A o \in Sockets : o < s => sockets[o].status # "idle"
    /\ LET found == findAvailableRoomK(gameRooms, nextRoomId)
           roomId == found.roomId
           isPlayer1 == Len(found.rooms[roomId].players) = 0
           pushed == [found.rooms EXCEPT
                         ![roomId].players = Append(@, [id |-> s, isPlayer1 |-> isPlayer1,
                                                        isAI |-> FALSE]),
                         ![roomId].humanCount = @ + 1]
           socks == [sockets EXCEPT ![s] = [status |-> "open", roomId |-> roomId,
                                            isPlayer1 |-> isPlayer1, joined |-> {roomId}]]
           alone == /\ pushed[roomId].humanCount = 1
                    /\ Len(pushed[roomId].players) < 2
                    /\ pushed[roomId].ai = 0
           at == attachAIAgentToRoom(pushed, timers, roomId)
           a == IF alone
                THEN [at EXCEPT !.rooms[roomId].players =
                                   Append(@, aiPlayer(at.timers[at.rooms[roomId].ai].ai.id))]
                ELSE [rooms |-> pushed, timers |-> timers]
           NotAI(p) == ~p.isAI
           b == IF a.rooms[roomId].humanCount = 2 /\ a.rooms[roomId].ai # 0
                THEN detachAIAgentFromRoom(
                         [a.rooms EXCEPT ![roomId].players = SelectSeq(@, NotAI)],
                         a.timers, roomId)
                ELSE a
           room == b.rooms[roomId]
       IN  /\ gameRooms' = b.rooms
           /\ timers' = b.timers
           /\ nextRoomId' = found.nextRoomId
           /\ sockets' = socks
           /\ emitted' = {Update(s, roomId),
                          Assignment(s, isPlayer1, roomId, Len(room.players))}
                         \cup (IF room.humanCount + (IF room.ai # 0 THEN 1 ELSE 0) = 2
                               THEN Broadcast(socks, roomId, "gameReady") ELSE {})
    /\ UNCHANGED <<build, limit, detached, counters>>

(* socket.on('paddleMove') of pon-server.js *)
PaddleMoveK(s, y) ==
    /\ build = "keyboard"
    /\ events < limit.events
    /\ sockets[s].status = "open"
    /\ LET rid == sockets[s].roomId
       IN  IF rid \notin DOMAIN gameRooms
           THEN UNCHANGED gameRooms
           ELSE IF sockets[s].isPlayer1
                THEN gameRooms' = [gameRooms EXCEPT
                                      ![rid].gameState.player1.y = Max(0, Min(L(300), y))]
                ELSE gameRooms' = [gameRooms EXCEPT
                                      ![rid].gameState.player2.y = Max(0, Min(L(300), y))]
    /\ emitted' = {}
    /\ events' = events + 1
    /\ UNCHANGED <<build, limit, detached, nextRoomId, sockets, timers, rejoins>>

(* socket.on('keyPress'); key "" is a message without a key *)
KeyPressK(s, key) ==
    /\ build = "keyboard"
    /\ events < limit.events
    /\ sockets[s].status = "open"
    /\ LET rid == sockets[s].roomId
           playerIndex == IF sockets[s].isPlayer1 THEN 1 ELSE 2
       IN  IF rid \in DOMAIN gameRooms /\ key # ""
           THEN gameRooms' = [gameRooms EXCEPT
                                 ![rid] = handleKeyPress(@, playerIndex, key)]
           ELSE UNCHANGED gameRooms
    /\ emitted' = {}
    /\ events' = events + 1
    /\ UNCHANGED <<build, limit, detached, nextRoomId, sockets, timers, rejoins>>

(* socket.on('keyRelease') *)
KeyReleaseK(s, key) ==
    /\ build = "keyboard"
    /\ events < limit.events
    /\ sockets[s].status = "open"
    /\ LET rid == sockets[s].roomId
           playerIndex == IF sockets[s].isPlayer1 THEN 1 ELSE 2
       IN  IF rid \in DOMAIN gameRooms /\ key # ""
           THEN gameRooms' = [gameRooms EXCEPT
                                 ![rid] = handleKeyRelease(@, playerIndex, key)]
           ELSE UNCHANGED gameRooms
    /\ emitted' = {}
    /\ events' = events + 1
    /\ UNCHANGED <<build, limit, detached, nextRoomId, sockets, timers, rejoins>>

(* socket.on('disconnect') of pon-server.js *)
DisconnectK(s) ==
    /\ build = "keyboard"
    /\ sockets[s].status = "open"
    /\ LET rid == sockets[s].roomId
           socks == [sockets EXCEPT ![s] = ClosedSocket]
           NotMe(p) == p.id # s
       IN  /\ sockets' = socks
           /\ IF rid \notin DOMAIN gameRooms
              THEN /\ UNCHANGED <<gameRooms, timers>>
                   /\ emitted' = {}
              ELSE LET left == [gameRooms EXCEPT
                                   ![rid].players = SelectSeq(@, NotMe),
                                   ![rid].humanCount = Max(0, @ - 1)]
                       at == attachAIAgentToRoom(left, timers, rid)
                       a == IF left[rid].humanCount = 1 /\ left[rid].ai = 0
                            THEN [at EXCEPT !.rooms[rid].players =
                                     Append(@, aiPlayer(at.timers[at.rooms[rid].ai].ai.id))]
                            ELSE [rooms |-> left, timers |-> timers]
                   IN  /\ gameRooms' = a.rooms
                       /\ timers' = a.timers
                       /\ emitted' = IF Len(a.rooms[rid].players) > 0
                                     THEN Broadcast(socks, rid, "playerDisconnected")
                                     ELSE {}
    /\ UNCHANGED <<build, limit, detached, nextRoomId, counters>>

SteppedK(rooms) == {r \in DOMAIN rooms : Len(rooms[r].players) > 0}

DeletedK(rooms) == {r \in DOMAIN rooms : Len(rooms[r].players) = 0}

StepRoomK(room) ==
    {[room EXCEPT !.gameState = updateGameK(@, rnd)] : rnd \in RandomsK(room.gameState)}

(* setInterval(..., 1000/60) of pon-server.js *)
GameLoopK ==
    /\ build = "keyboard"
    /\ events < limit.events
    /\ events' = events + 1
    /\ \E stepped \in LoopOutcomes(gameRooms, SteppedK(gameRooms),
                                   [r \in SteppedK(gameRooms) |-> StepRoomK(gameRooms[r])]) :
          gameRooms' = [r \in DOMAIN gameRooms \ DeletedK(gameRooms) |-> stepped[r]]
    /\ timers' = [h \in DOMAIN timers \ {gameRooms[d].ai : d \in DeletedK(gameRooms)} |->
                     timers[h]]
    /\ emitted' = UNION {{Update(s, r) : s \in Members(sockets, r)} : r \in SteppedK(gameRooms)}
    /\ UNCHANGED <<build, limit, detached, nextRoomId, sockets, rejoins>>

(* The callback of the setInterval of attachAIAgentToRoom.  Its closure holds *)
(* the room object and the agent object.                                      *)
AITimerK(h) ==
    /\ build = "keyboard"
    /\ events < limit.events
    /\ h \in DOMAIN timers
    /\ LET rid == timers[h].room
           room == IF rid \in DOMAIN gameRooms THEN gameRooms[rid] ELSE detached[rid]
       IN  \E rnd \in RandomsAI(room, timers[h].ai) :
              LET out == aiPerceiveAndAct(room, timers[h].ai, rnd)
              IN  /\ timers' = [timers EXCEPT ![h].ai = out.ai]
                  /\ IF rid \in DOMAIN gameRooms
                     THEN /\ gameRooms' = [gameRooms EXCEPT ![rid] = out.room]
                          /\ UNCHANGED detached
                     ELSE /\ detached' = [detached EXCEPT ![rid] = out.room]
                          /\ UNCHANGED gameRooms
    /\ emitted' = {}
    /\ events' = events + 1
    /\ UNCHANGED <<build, limit, nextRoomId, sockets, rejoins>>

----------------------------------------------------------------------------
(* Inputs of the handlers *)
Modes == {"AI", "PVP"}

LevelInputs == {"hard", "insane"}

MoveInputs == {-L(40), L(340)}

KeyInputs == {"up", "down", ""}

(* Some live AI timer fires *)
AIIntervalD == \E h \in DOMAIN timers : AITimerD(h)

AIIntervalK == \E h \in DOMAIN timers : AITimerK(h)

(* The matchmaking callbacks of the difficulty build *)
LobbyD ==
    \/ \E s \in Sockets : ConnectD(s)
    \/ \E s \in Sockets, mode \in Modes : JoinGameD(s, mode)
    \/ \E s \in Sockets : DisconnectD(s)
    \/ GameLoopD
    \/ AIIntervalD

(* The messages of a player in a room, difficulty build *)
InputD ==
    \/ \E s \in Sockets, level \in LevelInputs : SetDifficultyD(s, level)
    \/ \E s \in Sockets, y \in MoveInputs : PaddleMoveD(s, y)

(* The matchmaking callbacks of the keyboard build *)
LobbyK ==
    \/ \E s \in Sockets : ConnectK(s)
    \/ \E s \in Sockets : DisconnectK(s)
    \/ GameLoopK
    \/ AIIntervalK

(* The messages of a player in a room, keyboard build *)
InputK ==
    \/ \E s \in Sockets, y \in MoveInputs : PaddleMoveK(s, y)
    \/ \E s \in Sockets, key \in KeyInputs : KeyPressK(s, key)
    \/ \E s \in Sockets, key \in KeyInputs : KeyReleaseK(s, key)

(* Matchmaking in both builds *)
Init ==
    /\ Fresh
    /\ limit = [sockets |-> IF build = "difficulty" THEN NumSocketsD ELSE NumSocketsK,
                events |-> MaxEvents, rejoins |-> 0]

Next == LobbyD \/ LobbyK

Spec == Init /\ [][Next]_vars

(* Play: matchmaking and the in-room messages *)
InitPlay ==
    /\ Fresh
    /\ limit = [sockets |-> PlaySockets, events |-> PlayEvents, rejoins |-> 0]

NextPlay == LobbyD \/ InputD \/ LobbyK \/ InputK

SpecPlay == InitPlay /\ [][NextPlay]_vars

(* A single in-room message, timer firing or tick in a matchmaking run *)
InitMessages ==
    /\ Fresh
    /\ limit = [sockets |-> MessageSockets, events |-> MessageEvents, rejoins |-> 0]

NextMessages == LobbyD \/ InputD \/ LobbyK \/ InputK

SpecMessages == InitMessages /\ [][NextMessages]_vars

(* The keyboard build alone: matchmaking, key events and paddleMove *)
InitKeys ==
    /\ Fresh
    /\ build = "keyboard"
    /\ limit = [sockets |-> KeySockets, events |-> KeyEvents, rejoins |-> 0]

NextKeys == LobbyK \/ InputK

SpecKeys == InitKeys /\ [][NextKeys]_vars

(* The difficulty build alone: matchmaking, setDifficulty and paddleMove *)
InitDifficulty ==
    /\ Fresh
    /\ build = "difficulty"
    /\ limit = [sockets |-> DifficultySockets, events |-> DifficultyEvents, rejoins |-> 0]

NextDifficulty == LobbyD \/ InputD

SpecDifficulty == InitDifficulty /\ [][NextDifficulty]_vars

(* Matchmaking of the difficulty build with repeated joinGame messages *)
InitRejoin ==
    /\ Fresh
    /\ build = "difficulty"
    /\ limit = [sockets |-> RejoinSockets, events |-> RejoinEvents, rejoins |-> MaxRejoins]

NextRejoin == LobbyD

SpecRejoin == InitRejoin /\ [][NextRejoin]_vars

(* The ball keeps to its lane: behind a paddle plane it flies on to the edge *)
XLane(ball) ==
    /\ ball.x < L(20) => ball.vx < 0
    /\ ball.x > L(780) => ball.vx > 0

(* At or beyond a wall the vertical velocity has been turned back *)
YLane(ball, top, bottom) ==
    /\ ball.y <= top => ball.vy > 0
    /\ ball.y >= bottom => ball.vy < 0

(* Ball abscissas at the edges, the paddle planes and the centre *)
BoardXs == {L(x) : x \in {0, 2, 18, 20, 22, 24, 30, 32, 400, 768, 770, 776, 778, 780, 782,
                          798, 800}}

(* Ball ordinates at the walls and at the ends of the paddles *)
BoardYs == {L(y) : y \in {0, 2, 10, 12, 100, 102, 200, 250, 252, 388, 390, 398, 400}}

PaddleYs == {0, L(150), L(300)}

(* Game states of a two-human match of the difficulty build in play *)
GameStatesD ==
    {[createGameStateD EXCEPT !.ball.x = x, !.ball.y = y, !.ball.vx = vx, !.ball.vy = vy,
                              !.player1.y = p1, !.player2.y = p2] :
        x \in BoardXs, y \in BoardYs, vx \in {-L(2), L(2)}, vy \in {-L(2), L(2)},
        p1 \in PaddleYs, p2 \in PaddleYs}

(* Game states of a two-human match of the keyboard build in play: vy of the *)
(* ball carries the jitter of earlier collisions, the paddles a held key     *)
GameStatesK ==
    {[createGameStateK EXCEPT !.ball.x = x, !.ball.y = y + f, !.ball.vx = vx, !.ball.vy = vy,
                              !.player1.y = p1, !.player2.y = L(300) - p1,
                              !.player1.vy = i, !.player2.vy = -i] :
        x \in BoardXs, y \in BoardYs \ {0, L(2), L(398), L(400)}, f \in {0, 1},
        vx \in {-L(2), L(2)}, vy \in {-L(2) - 2, L(2), L(2) + 1},
        p1 \in PaddleYs, i \in {0, L(5)}}

(* One ready match of two humans, its game state drawn from the states above *)
InitPhysics ==
    /\ build \in {"difficulty", "keyboard"}
    /\ \E gs \in IF build = "difficulty" THEN GameStatesD ELSE GameStatesK :
          /\ XLane(gs.ball)
          /\ IF build = "difficulty"
             THEN /\ YLane(gs.ball, 0, L(400))
                  /\ gameRooms = 1 :> [NewRoomD(FALSE) EXCEPT
                         !.players = <<[id |-> 1, isPlayer1 |-> TRUE],
                                       [id |-> 2, isPlayer1 |-> FALSE]>>,
                         !.ready = TRUE, !.gameState = gs]
             ELSE /\ YLane(gs.ball, gs.ball.radius, L(400) - gs.ball.radius)
                  /\ gameRooms = 1 :> [NewRoomK EXCEPT
                         !.players = <<[id |-> 1, isPlayer1 |-> TRUE, isAI |-> FALSE],
                                       [id |-> 2, isPlayer1 |-> FALSE, isAI |-> FALSE]>>,
                         !.humanCount = 2, !.gameState = gs]
    /\ detached = NoRooms
    /\ nextRoomId = 2
    /\ sockets = [s \in Sockets |->
                     IF s <= 2
                     THEN [status |-> "open", roomId |-> 1, isPlayer1 |-> s = 1,
                           joined |-> {1}]
                     ELSE NoSocket]
    /\ timers = NoRooms
    /\ emitted = {}
    /\ events = 0
    /\ rejoins = 0
    /\ limit = [sockets |-> 2, events |-> PhysicsTicks, rejoins |-> 0]

NextPhysics == GameLoopD \/ GameLoopK

SpecPhysics == InitPhysics /\ [][NextPhysics]_vars

(* Game states of a match of one human and the AI, keyboard build: the ball *)
(* on its way to either paddle, the right paddle where the AI has moved it *)
AgentGameStates ==
    {[createGameStateK EXCEPT !.ball.x = x, !.ball.y = y, !.ball.vx = vx, !.ball.vy = vy,
                              !.player2.y = p2] :
        x \in {L(32), L(400), L(760)}, y \in {L(12), L(200), L(380)},
        vx \in {-L(2), L(2)}, vy \in {-L(2), L(2)}, p2 \in PaddleYs}

(* The key the agent holds and the velocity-intent it gave the right paddle *)
HeldKeys == {"none", "up", "down"}

IntentOfKey(key, speed) == IF key = "up" THEN -speed ELSE IF key = "down" THEN speed ELSE 0

(* One match of a human and the AI in play: the state the connection handler *)
(* leaves, with the game state and the agent's held key drawn                *)
InitAgent ==
    /\ build = "keyboard"
    /\ \E gs \in AgentGameStates, key \in HeldKeys :
          /\ gameRooms = 1 :> [NewRoomK EXCEPT
                 !.players = <<[id |-> 1, isPlayer1 |-> TRUE, isAI |-> FALSE],
                               [id |-> AIId(1), isPlayer1 |-> FALSE, isAI |-> TRUE]>>,
                 !.humanCount = 1,
                 !.gameState = [gs EXCEPT !.player2.vy = IntentOfKey(key, gs.player2.speed)],
                 !.ai = 1]
          /\ timers = 1 :> [room |-> 1, refreshRate |-> NewAgent(1).perceptionInterval,
                            ai |-> [NewAgent(1) EXCEPT !.pressing = key]]
    /\ detached = NoRooms
    /\ nextRoomId = 2
    /\ sockets = [s \in Sockets |->
                     IF s = 1
                     THEN [status |-> "open", roomId |-> 1, isPlayer1 |-> TRUE, joined |-> {1}]
                     ELSE NoSocket]
    /\ emitted = {}
    /\ events = 0
    /\ rejoins = 0
    /\ limit = [sockets |-> 1, events |-> AgentEvents, rejoins |-> 0]

NextAgent == AIIntervalK \/ GameLoopK

SpecAgent == InitAgent /\ [][NextAgent]_vars

----------------------------------------------------------------------------
(* Vocabulary of the properties *)

IsD == build = "difficulty"

IsK == build = "keyboard"

(* The human entries of a room's players; only the keyboard build lists its AI there *)
Humans(room) ==
    IF IsK
    THEN {i \in 1..Len(room.players) : ~room.players[i].isAI}
    ELSE 1..Len(room.players)

(* Whether an AI holds a paddle of the room *)
HasAI(room) == IF IsK THEN room.ai # 0 ELSE room.aiEnabled

(* Occupied paddle slots: the humans and the AI together *)
Occupied(room) == Cardinality(Humans(room)) + (IF HasAI(room) THEN 1 ELSE 0)

GameLoop == GameLoopD \/ GameLoopK

(* The step moved the ball of room r *)
Advanced(r) ==
    /\ r \in DOMAIN gameRooms
    /\ r \in DOMAIN gameRooms'
    /\ gameRooms'[r].gameState.ball # gameRooms[r].gameState.ball

UpdatesOf(msgs) == {m \in msgs : m.ev = "gameUpdate"}

Assignments(msgs) == {m \in msgs : m.ev = "playerAssignment"}

----------------------------------------------------------------------------
(* C1: in every reachable state, so after every tick and every paddleMove, *)
(* both paddles of every match have y in [0, 300].                        *)
C1_PaddlesWithinBoard ==
    \A r \in DOMAIN gameRooms :
        /\ gameRooms[r].gameState.player1.y \in 0..L(300)
        /\ gameRooms[r].gameState.player2.y \in 0..L(300)

C3_AdvancedHaveTwoSlots ==
    [][GameLoop => \A r \in DOMAIN gameRooms :
          Advanced(r) => Occupied(gameRooms[r]) = 2]_vars

(* C4: after every handler each match has at most two occupied slots, humans *)
(* and AI together, and at most two entries in its players                   *)
C4_AtMostTwoSlots ==
    \A r \in DOMAIN gameRooms :
        /\ Occupied(gameRooms[r]) <= 2
        /\ Len(gameRooms[r].players) <= 2
        /\ IsK => gameRooms[r].humanCount + (IF gameRooms[r].ai # 0 THEN 1 ELSE 0) <= 2

(* A third socket has just connected while a match holds two humans: it is *)
(* placed in a later match                                                 *)
C4_Witness ==
    /\ IsK
    /\ \E r \in DOMAIN gameRooms, m \in Assignments(emitted) :
          /\ Cardinality(Humans(gameRooms[r])) = 2
          /\ m.roomId > r
          /\ m.roomId \in DOMAIN gameRooms

(* C5: a physics tick removes from the registry every match whose humans have *)
(* all left                                                                   *)
C5_TickRemovesDeserted ==
    [][GameLoop => \A r \in DOMAIN gameRooms :
          Humans(gameRooms[r]) = {} => r \notin DOMAIN gameRooms']_vars

(* C6: an AI refresh callback fires only for a match that is in the registry *)
C6_TimerOnlyForRegistered ==
    [][\A h \in DOMAIN timers :
          (AITimerD(h) \/ AITimerK(h)) => timers[h].room \in DOMAIN gameRooms]_vars

(* C7: a match that two humans hold has no AI agent and no live AI timer, so *)
(* no aiPerceiveAndAct can run for it                                        *)
C7_NoTimerForTwoHumans ==
    IsK => \A r \in DOMAIN gameRooms :
              gameRooms[r].humanCount = 2 =>
                 /\ gameRooms[r].ai = 0
                 /\ \A h \in DOMAIN timers : timers[h].room # r

(* A second human has just joined a match whose AI had pressed a key *)
C7_Witness ==
    /\ IsK
    /\ \E r \in DOMAIN gameRooms, m \in Assignments(emitted) :
          /\ m.roomId = r
          /\ m.playersInRoom = 2
          /\ gameRooms[r].humanCount = 2
          /\ gameRooms[r].gameState.player2.vy # 0

(* The last handler was the PVP join of socket a, which waits alone, and every *)
(* other match is Ready                                                        *)
FirstOfPair(a) ==
    /\ Msg(a, "waitingForPlayer") \in emitted
    /\ \A q \in DOMAIN gameRooms : q # sockets[a].roomId => gameRooms[q].ready

(* C8: from a registry with no Waiting match, a PVP join gets Left, waits and *)
(* receives waitingForPlayer; the PVP join of another socket that follows is  *)
(* placed in the same match on Right, sets it Ready and emits gameReady to    *)
(* both sockets.                                                              *)
C8_PvpPair ==
    [][IsD =>
         /\ \A a \in Sockets :
               (JoinGameD(a, "PVP") /\ \A q \in DOMAIN gameRooms : gameRooms[q].ready) =>
                  /\ sockets'[a].isPlayer1
                  /\ ~gameRooms'[sockets'[a].roomId].ready
                  /\ Msg(a, "waitingForPlayer") \in emitted'
                  /\ Assignment(a, TRUE, sockets'[a].roomId, 1) \in emitted'
         /\ \A a, b \in Sockets :
               (a # b /\ FirstOfPair(a) /\ JoinGameD(b, "PVP")) =>
                  LET r == sockets[a].roomId
                  IN  /\ sockets'[a].roomId = r /\ sockets'[b].roomId = r
                      /\ sockets'[a].isPlayer1 /\ ~sockets'[b].isPlayer1
                      /\ gameRooms'[r].players = <<[id |-> a, isPlayer1 |-> TRUE],
                                                   [id |-> b, isPlayer1 |-> FALSE]>>
                      /\ gameRooms'[r].ready
                      /\ {Msg(a, "gameReady"), Msg(b, "gameReady")} \subseteq emitted'
                      /\ Assignment(b, FALSE, r, 2) \in emitted']_vars

(* The second PVP join has just paired two sockets *)
C8_Witness ==
    /\ IsD
    /\ \E a, b \in Sockets, r \in DOMAIN gameRooms :
          /\ a # b
          /\ gameRooms[r].players = <<[id |-> a, isPlayer1 |-> TRUE],
                                      [id |-> b, isPlayer1 |-> FALSE]>>
          /\ gameRooms[r].ready
          /\ {Msg(a, "gameReady"), Msg(b, "gameReady")} \subseteq emitted
          /\ Assignment(b, FALSE, r, 2) \in emitted

(* A human of room r holds Left *)
LeftHeld(r) ==
    /\ r \in DOMAIN gameRooms
    /\ \E i \in Humans(gameRooms[r]) : gameRooms[r].players[i].isPlayer1

(* The humans of every match hold distinct sides *)
DistinctSides ==
    \A r \in DOMAIN gameRooms : \A i, j \in Humans(gameRooms[r]) :
        i # j => gameRooms[r].players[i].isPlayer1 # gameRooms[r].players[j].isPlayer1

(* C9: a joining human gets Left whenever no human of its match holds Left, *)
(* and the humans of one match always hold distinct sides.                  *)
C9_LeftBeforeRight ==
    [][/\ \A s \in Sockets :
             (ConnectK(s) \/ \E mode \in Modes : JoinGameD(s, mode)) =>
                (~LeftHeld(sockets'[s].roomId) => sockets'[s].isPlayer1)
       /\ DistinctSides']_vars

(* C10: joinGame in AI mode adds a new match and leaves the others as they   *)
(* were; the human is its only player, on Left; the match is AI-enabled and  *)
(* Ready, a new AI timer runs for it, and gameReady is emitted to the joiner. *)
(* The next physics tick advances such a match.                              *)
C10_AiJoinCreatesReadyMatch ==
    [][/\ \A s \in Sockets :
             JoinGameD(s, "AI") =>
                LET r == sockets'[s].roomId
                IN  /\ r \notin DOMAIN gameRooms
                    /\ DOMAIN gameRooms' = DOMAIN gameRooms \cup {r}
                    /\ \A q \in DOMAIN gameRooms : gameRooms'[q] = gameRooms[q]
                    /\ gameRooms'[r].players = <<[id |-> s, isPlayer1 |-> TRUE]>>
                    /\ sockets'[s].isPlayer1
                    /\ gameRooms'[r].aiEnabled
                    /\ gameRooms'[r].ready
                    /\ gameRooms'[r].aiTimer \in DOMAIN timers' \ DOMAIN timers
                    /\ timers'[gameRooms'[r].aiTimer].room = r
                    /\ Msg(s, "gameReady") \in emitted'
                    /\ Assignment(s, TRUE, r, 1) \in emitted'
       /\ GameLoopD => \A r \in DOMAIN gameRooms :
             (gameRooms[r].aiEnabled /\ gameRooms[r].ready /\ Len(gameRooms[r].players) = 1)
                => Advanced(r)]_vars

(* An AI join has just created a match although a Waiting match had room *)
C10_Witness ==
    /\ IsD
    /\ \E s \in Sockets, r, q \in DOMAIN gameRooms :
          /\ Msg(s, "gameReady") \in emitted
          /\ Assignment(s, TRUE, r, 1) \in emitted
          /\ gameRooms[r].aiEnabled
          /\ gameRooms[r].aiTimer \in DOMAIN timers
          /\ q # r
          /\ ~gameRooms[q].ready
          /\ Len(gameRooms[q].players) = 1

----------------------------------------------------------------------------
(* The paddle the AI of a room drives: player2 in the difficulty build, the *)
(* agent's playerIndex in the keyboard build                                *)
AIPaddle(room, tm) == IF IsK THEN tm[room.ai].ai.playerIndex ELSE 2

(* The paddle a socket's messages are applied to *)
PaddleOf(s) == IF sockets[s].isPlayer1 THEN 1 ELSE 2

(* C11: when one human leaves a two-human match, the AI is attached to the   *)
(* side that human vacated, so the remaining human keeps a paddle of its own *)
C11_AITakesVacatedSide ==
    [][\A s \in Sockets :
          LET rid == sockets[s].roomId
          IN  (/\ DisconnectD(s) \/ DisconnectK(s)
               /\ rid \in DOMAIN gameRooms
               /\ Cardinality(Humans(gameRooms[rid])) = 2
               /\ ~HasAI(gameRooms[rid]))
              => /\ HasAI(gameRooms'[rid])
                 /\ AIPaddle(gameRooms'[rid], timers') = PaddleOf(s)]_vars

(* C12: setDifficulty for a match that is not AI-backed changes nothing: the *)
(* match, its configured AI difficulty included, and the timers stay as they *)
(* were, so an AI attached later starts from the difficulty set before       *)
C12_SetDifficultyIgnoredWithoutAI ==
    [][\A s \in Sockets, level \in LevelInputs :
          LET rid == sockets[s].roomId
          IN  (/\ SetDifficultyD(s, level)
               /\ rid \in DOMAIN gameRooms
               /\ ~gameRooms[rid].aiEnabled)
              => /\ gameRooms' = gameRooms
                 /\ timers' = timers]_vars

(* The live timers whose callback refreshes room rid *)
TimersOf(tm, rid) == {h \in DOMAIN tm : tm[h].room = rid}

(* The room object a timer's callback holds *)
RoomOfTimer(h) ==
    IF timers[h].room \in DOMAIN gameRooms
    THEN gameRooms[timers[h].room] ELSE detached[timers[h].room]

(* Each match has at most one live refresh timer, the one its aiTimer names, *)
(* and that timer's period is the refreshRate of the match's difficulty      *)
OneTimerAtDifficultyPeriod ==
    \A h \in DOMAIN timers :
        /\ TimersOf(timers, timers[h].room) = {h}
        /\ RoomOfTimer(h).aiTimer = h
        /\ timers[h].refreshRate = DIFFICULTY_SETTINGS[RoomOfTimer(h).aiDifficulty].refreshRate

(* C13: setDifficulty with a valid level on an AI-backed match sets the      *)
(* difficulty and leaves exactly one refresh timer for the match, running at *)
(* the period of that level; after every step each match has at most one     *)
(* refresh timer and its period is the one of the match's current difficulty *)
C13_OneTimerAtDifficultyPeriod ==
    [][/\ IsD => OneTimerAtDifficultyPeriod'
       /\ \A s \in Sockets, level \in Levels :
             LET rid == sockets[s].roomId
             IN  (/\ SetDifficultyD(s, level)
                  /\ rid \in DOMAIN gameRooms
                  /\ gameRooms[rid].aiEnabled)
                 => /\ gameRooms'[rid].aiDifficulty = level
                    /\ TimersOf(timers', rid) = {gameRooms'[rid].aiTimer}
                    /\ timers'[gameRooms'[rid].aiTimer].refreshRate =
                           DIFFICULTY_SETTINGS[level].refreshRate]_vars

(* An AI-backed match set to hard has its one timer at the period of hard *)
C13_Witness ==
    /\ IsD
    /\ \E r \in DOMAIN gameRooms :
          /\ gameRooms[r].aiEnabled
          /\ gameRooms[r].aiDifficulty = "hard"
          /\ TimersOf(timers, r) = {gameRooms[r].aiTimer}
          /\ timers[gameRooms[r].aiTimer].refreshRate = 500

(* C14: setDifficulty with a level other than easy, medium and hard leaves *)
(* every match, its difficulty included, and every timer as they were, and *)
(* sends nothing                                                           *)
C14_UnknownLevelIgnored ==
    [][\A s \in Sockets, level \in LevelInputs \ {"easy", "medium", "hard"} :
          SetDifficultyD(s, level)
          => /\ gameRooms' = gameRooms
             /\ timers' = timers
             /\ detached' = detached
             /\ sockets' = sockets
             /\ emitted' = {}]_vars

(* The only event so far came from the one socket that ever connected; its  *)
(* AI match is as joinGame left it, so the event was neither a tick, a      *)
(* timer firing, a paddleMove nor a setDifficulty with a level of Levels    *)
C14_Witness ==
    /\ IsD
    /\ events = 1
    /\ \A s \in Sockets \ {1} : sockets[s].status = "idle"
    /\ sockets[1].status = "open"
    /\ sockets[1].roomId \in DOMAIN gameRooms
    /\ LET room == gameRooms[sockets[1].roomId]
       IN  /\ room.aiEnabled
           /\ room.gameState = createGameStateD
           /\ room.aiDifficulty = "medium"
           /\ room.aiTimer \in DOMAIN timers
           /\ timers[room.aiTimer].refreshRate = 1000

(* The ball of a game state after updateGame has integrated its position *)
Integrated(gs) == [x |-> gs.ball.x + gs.ball.vx, y |-> gs.ball.y + gs.ball.vy]

(* The tests updateGame makes on the integrated ball *)
AtWall(gs) ==
    IF IsK
    THEN \/ Integrated(gs).y - gs.ball.radius <= 0
         \/ Integrated(gs).y + gs.ball.radius >= L(400)
    ELSE Integrated(gs).y <= 0 \/ Integrated(gs).y >= L(400)

HitLeft(gs) ==
    IF IsK
    THEN Hit1K(MovedK(gs))
    ELSE /\ Integrated(gs).x = L(20)
         /\ Integrated(gs).y >= gs.player1.y
         /\ Integrated(gs).y <= gs.player1.y + L(100)

HitRight(gs) ==
    IF IsK
    THEN Hit2K(MovedK(gs))
    ELSE /\ Integrated(gs).x = L(780)
         /\ Integrated(gs).y >= gs.player2.y
         /\ Integrated(gs).y <= gs.player2.y + L(100)

OffLeft(gs) == Integrated(gs).x < 0

OffRight(gs) == Integrated(gs).x > L(800)

(* The rooms a step keeps *)
Kept == DOMAIN gameRooms \cap DOMAIN gameRooms'

(* The rooms on whose game state a firing of the game loop calls updateGame *)
Stepped == IF IsK THEN SteppedK(gameRooms) ELSE SteppedD(gameRooms)

(* C15: one updateGame call, like every other step, raises at most one of *)
(* the two scores of a match, by exactly 1, and lowers none               *)
C15_OneScorePerStep ==
    [][\A r \in Kept :
          LET d1 == gameRooms'[r].gameState.player1.score - gameRooms[r].gameState.player1.score
              d2 == gameRooms'[r].gameState.player2.score - gameRooms[r].gameState.player2.score
          IN  <<d1, d2>> \in {<<0, 0>>, <<1, 0>>, <<0, 1>>}]_vars

(* A call has given Left its first point *)
C15_Witness ==
    \E r \in DOMAIN gameRooms :
        /\ gameRooms[r].gameState.player1.score = 1
        /\ gameRooms[r].gameState.player2.score = 0

(* The ball is back at the centre with speed 2 on both axes *)
Served(ball) ==
    /\ ball.x = L(400)
    /\ ball.y = L(200)
    /\ Abs(ball.vx) = L(2)
    /\ Abs(ball.vy) = L(2)

(* C16: when the integrated ball is left of 0, updateGame gives Right one   *)
(* point, leaves Left's score, and serves the ball from (400, 200) with     *)
(* |vx| = |vy| = 2; when it is right of 800, the same with the sides swapped *)
C16_ScoreAndServe ==
    [][GameLoop =>
          \A r \in Stepped :
              LET a == gameRooms[r].gameState
                  b == gameRooms'[r].gameState
              IN  /\ OffLeft(a)
                     => /\ b.player2.score = a.player2.score + 1
                        /\ b.player1.score = a.player1.score
                        /\ Served(b.ball)
                  /\ OffRight(a)
                     => /\ b.player1.score = a.player1.score + 1
                        /\ b.player2.score = a.player2.score
                        /\ Served(b.ball)]_vars

(* Right has just scored its first point and the ball is served *)
C16_Witness ==
    \E r \in DOMAIN gameRooms :
        /\ gameRooms[r].gameState.player2.score = 1
        /\ gameRooms[r].gameState.player1.score = 0
        /\ Served(gameRooms[r].gameState.ball)

(* C17: whenever updateGame finds the ball on a paddle, vx points away from *)
(* that paddle after the call: vx > 0 off Left, vx < 0 off Right.  The ball *)
(* stays in its lane, so it meets the plane of a paddle only from the front *)
C17_BounceAway ==
    [][GameLoop =>
          \A r \in Stepped :
              LET a == gameRooms[r].gameState
                  b == gameRooms'[r].gameState
              IN  /\ HitLeft(a) => b.ball.vx > 0
                  /\ HitRight(a) => b.ball.vx < 0
                  /\ XLane(b.ball)]_vars

(* The point-equality build has turned the ball back at the Left plane: a *)
(* ball that moved right before the tick would have come from behind it   *)
C17_Witness ==
    /\ IsD
    /\ events > 0
    /\ \E r \in DOMAIN gameRooms :
          /\ gameRooms[r].gameState.ball.x = L(20)
          /\ gameRooms[r].gameState.ball.vx > 0

(* The velocity-intent of a paddle; the difficulty build's paddles have none *)
Intent(paddle) == IF IsK THEN paddle.vy ELSE 0

(* C18: when the integrated ball is at no wall, on no paddle and on the    *)
(* board, and neither paddle has a velocity-intent, one updateGame call    *)
(* moves the ball by exactly (vx, vy) and changes nothing else: the ball's *)
(* velocity, both paddles and both scores stay as they were                *)
C18_PlainStep ==
    [][GameLoop =>
          \A r \in Stepped :
              LET a == gameRooms[r].gameState
                  b == gameRooms'[r].gameState
              IN  (/\ ~AtWall(a)
                   /\ ~HitLeft(a) /\ ~HitRight(a)
                   /\ ~OffLeft(a) /\ ~OffRight(a)
                   /\ Intent(a.player1) = 0 /\ Intent(a.player2) = 0)
                  => b = [a EXCEPT !.ball.x = @ + a.ball.vx, !.ball.y = @ + a.ball.vy]]_vars

(* The served ball of the keyboard build one tick later, at (402, 202) *)
C18_Witness ==
    /\ IsK
    /\ events = 1
    /\ \E r \in DOMAIN gameRooms :
          LET gs == gameRooms[r].gameState
          IN  /\ gs.ball = [createGameStateK.ball EXCEPT !.x = L(402), !.y = L(202)]
              /\ gs.player1.vy = 0
              /\ gs.player2.vy = 0

(* Socket s sends one of the in-room messages *)
InRoomMessage(s) ==
    \/ \E y \in MoveInputs : PaddleMoveD(s, y) \/ PaddleMoveK(s, y)
    \/ \E key \in KeyInputs : KeyPressK(s, key) \/ KeyReleaseK(s, key)
    \/ \E level \in LevelInputs : SetDifficultyD(s, level)

(* C19: paddleMove, keyPress, keyRelease and setDifficulty from a socket   *)
(* whose roomId names no registered match change no match and no timer and *)
(* send nothing to anyone                                                  *)
C19_UnassignedIgnored ==
    [][\A s \in Sockets :
          (sockets[s].roomId \notin DOMAIN gameRooms /\ InRoomMessage(s))
          => /\ gameRooms' = gameRooms
             /\ timers' = timers
             /\ detached' = detached
             /\ sockets' = sockets
             /\ emitted' = {}]_vars

(* A socket that has not joined is open beside an AI match that no tick, *)
(* timer firing or paddleMove has touched, and one event has happened    *)
C19_Witness ==
    /\ IsD
    /\ events = 1
    /\ emitted = {}
    /\ sockets[2].status = "open"
    /\ sockets[2].roomId = 0
    /\ sockets[1].status = "open"
    /\ sockets[1].roomId \in DOMAIN gameRooms
    /\ gameRooms[sockets[1].roomId].aiEnabled
    /\ gameRooms[sockets[1].roomId].gameState = createGameStateD

(* A match whose game is running against an AI *)
ReadyWithAI(room) ==
    /\ HasAI(room)
    /\ IF IsK THEN Occupied(room) = 2 ELSE room.ready /\ Len(room.players) > 0

(* C20: every match that is AI-backed and ready, by an AI-mode join or by   *)
(* the AI taking over when a human left a two-human match, has an AI timer *)
(* scheduled, so that its firing recomputes the AI's target               *)
C20_ReadyAIHasTimer ==
    \A r \in DOMAIN gameRooms :
        ReadyWithAI(gameRooms[r]) => TimersOf(timers, r) # {}

(* The end of the forward simulation aiPerceiveAndAct runs on a room *)
Forecast(room) ==
    Predict(room.gameState, room.gameState.ball.x, room.gameState.ball.y,
            room.gameState.ball.vx, room.gameState.ball.vy, 0)

(* C21: when the AI timer fires while the ball moves away from the AI paddle *)
(* (vx < 0), the forward simulation runs on until the ball has come back to  *)
(* the x-span of the AI paddle, and does not stop one step ahead of the ball *)
C21_ForecastReachesPaddle ==
    [][\A h \in DOMAIN timers :
          (/\ AITimerK(h)
           /\ timers[h].room \in DOMAIN gameRooms
           /\ gameRooms[timers[h].room].gameState.ball.vx < 0)
          => LET s == gameRooms[timers[h].room].gameState
             IN  /\ Forecast(gameRooms[timers[h].room]).x >= s.player2.x - s.player2.width
                 /\ Forecast(gameRooms[timers[h].room]).steps > 0]_vars

(* C22: after a firing of aiPerceiveAndAct that injects no mistake, with    *)
(* delta = targetY - centre of the right paddle: the agent presses up and   *)
(* the paddle's vy is -speed if delta < -8, it presses down and vy is speed *)
(* if delta > 8, and it is idle and vy is 0 if |delta| <= 8                 *)
C22_ActuationFollowsDelta ==
    [][\A h \in DOMAIN timers :
          (AITimerK(h) /\ timers[h].room \in DOMAIN gameRooms)
          => LET rid == timers[h].room
                 paddle == gameRooms'[rid].gameState.player2
                 agent == timers'[h].ai
                 delta == agent.targetY - (paddle.y + paddle.height \div 2)
                 want == IF delta < -L(8) THEN "up"
                         ELSE IF delta > L(8) THEN "down" ELSE "none"
             IN  \A rnd \in RandomsAI(gameRooms[rid], timers[h].ai) :
                    (/\ ~rnd.mistake
                     /\ aiPerceiveAndAct(gameRooms[rid], timers[h].ai, rnd).room = gameRooms'[rid]
                     /\ aiPerceiveAndAct(gameRooms[rid], timers[h].ai, rnd).ai = agent)
                    => /\ agent.pressing = want
                       /\ paddle.vy = IntentOfKey(want, paddle.speed)]_vars

(* The key the agent holds after a sequence of handler calls, holding       *)
(* `held` before them: a press holds the key, releasing the held key holds  *)
(* none                                                                     *)
RECURSIVE HeldAfter(_, _)
HeldAfter(held, calls) ==
    IF calls = <<>> THEN held
    ELSE HeldAfter(IF Head(calls).op = "press" THEN Head(calls).key
                   ELSE IF Head(calls).key = held THEN "none" ELSE held,
                   Tail(calls))

(* C23: in every firing of the agent a key is pressed only while no key is  *)
(* held, so a change between up and down releases the held key right before *)
(* pressing the opposite one, a held key is never pressed again, and        *)
(* ai.pressing is the one key held after the calls                          *)
C23_ReleaseBeforeOppositePress ==
    [][\A h \in DOMAIN timers :
          (AITimerK(h) /\ timers[h].room \in DOMAIN gameRooms)
          => LET rid == timers[h].room
                 held == timers[h].ai.pressing
             IN  \A rnd \in RandomsAI(gameRooms[rid], timers[h].ai) :
                    LET out == aiPerceiveAndAct(gameRooms[rid], timers[h].ai, rnd)
                    IN  (out.room = gameRooms'[rid] /\ out.ai = timers'[h].ai)
                        => /\ \A i \in 1..Len(out.calls) :
                                 out.calls[i].op = "press"
                                 => /\ HeldAfter(held, SubSeq(out.calls, 1, i - 1)) = "none"
                                    /\ held \notin {"none", out.calls[i].key}
                                       => i > 1 /\ out.calls[i - 1] = KeyCall("release", held)
                           /\ timers'[h].ai.pressing \in HeldKeys
                           /\ timers'[h].ai.pressing = HeldAfter(held, out.calls)]_vars

(* The paddle was carried up by one tick of the loop while the agent held   *)
(* up, and the agent then fired and changed to down                         *)
C23_Witness ==
    /\ events = 2
    /\ \E h \in DOMAIN timers :
          /\ timers[h].ai.pressing = "down"
          /\ timers[h].room \in DOMAIN gameRooms
          /\ LET paddle == gameRooms[timers[h].room].gameState.player2
             IN  /\ paddle.vy = paddle.speed
                 /\ paddle.y + paddle.speed \in PaddleYs
                 /\ paddle.y \notin PaddleYs
                 /\ paddle.y - paddle.speed \notin PaddleYs

(* C24: the components of the ball's velocity never exceed a maximum: |vx|  *)
(* stays at the serve speed 2 and |vy| within the serve speed plus the      *)
(* largest jitter of one collision, 2.25, which every drawn state respects  *)
C24_BallSpeedBounded ==
    \A r \in DOMAIN gameRooms :
        /\ Abs(gameRooms[r].gameState.ball.vx) <= L(2)
        /\ Abs(gameRooms[r].gameState.ball.vy) <= L(2) + Q \div 4

(* C25: a call of updateGame that neither hits a paddle nor serves reverses *)
(* the ball's vy exactly when the integrated ball touches a wall inclusive  *)
(* of its radius (y - 10 <= 0 or y + 10 >= 400), and leaves the centre no   *)
(* closer to a wall than one step beyond the radius                         *)
C25_BounceInclusiveOfRadius ==
    [][GameLoop =>
          \A r \in Stepped :
              LET a == gameRooms[r].gameState
                  b == gameRooms'[r].gameState
                  touches == \/ Integrated(a).y - a.ball.radius <= 0
                             \/ Integrated(a).y + a.ball.radius >= L(400)
              IN  (~HitLeft(a) /\ ~HitRight(a) /\ ~OffLeft(a) /\ ~OffRight(a))
                  => /\ b.ball.vy = IF touches THEN -a.ball.vy ELSE a.ball.vy
                     /\ b.ball.y >= a.ball.radius - Abs(a.ball.vy)
                     /\ b.ball.y <= L(400) - a.ball.radius + Abs(a.ball.vy)]_vars

(* The entries of the rooms' players arrays that carry the id of socket s *)
Seats(s) ==
    UNION {{<<r, i>> : i \in {j \in 1..Len(gameRooms[r].players) :
                                   gameRooms[r].players[j].id = s}} :
           r \in DOMAIN gameRooms}

(* C26: even when a connection sends joinGame more than once, it is listed  *)
(* in the players of at most one room, in at most one slot, and once it has *)
(* disconnected no room lists it                                            *)
C26_OneSeatPerConnection ==
    \A s \in Sockets :
        /\ Cardinality(Seats(s)) <= 1
        /\ sockets[s].status = "closed" => Seats(s) = {}

(* C27: in the point-equality build the ball's |vx| is always 2 and its x   *)
(* an even integer, before and after every step, so a call of updateGame    *)
(* never carries the ball from the front of a paddle plane to behind it:    *)
(* coming from the right it stands on x = 20, coming from the left on 780   *)
C27_BallMeetsPlanes ==
    [][IsD =>
          \A r \in Kept :
              LET a == gameRooms[r].gameState.ball
                  b == gameRooms'[r].gameState.ball
              IN  /\ Abs(a.vx) = L(2) /\ a.x % L(2) = 0
                  /\ Abs(b.vx) = L(2) /\ b.x % L(2) = 0
                  /\ a.x > L(20) => b.x >= L(20)
                  /\ a.x < L(780) => b.x <= L(780)
                  /\ (a.x > L(20) /\ a.x + a.vx <= L(20)) => a.x + a.vx = L(20)
                  /\ (a.x < L(780) /\ a.x + a.vx >= L(780)) => a.x + a.vx = L(780)]_vars

(* A ball flying right has stood on the Right plane and was turned back *)
C27_Witness ==
    /\ IsD
    /\ events > 0
    /\ \E r \in DOMAIN gameRooms :
          /\ gameRooms[r].gameState.ball.x = L(780)
          /\ gameRooms[r].gameState.ball.vx < 0

(* C28: a step in which a room loses its agent leaves the room's gameState  *)
(* as it was, the held key included, and removes the agent's timer and no   *)
(* other; detaching the room again changes nothing; and while the room has  *)
(* no agent, only a key event of a human changes the right paddle's vy      *)
C28_DetachKeepsGameState ==
    [][IsK =>
          \A r \in Kept :
              LET a == gameRooms[r]
                  b == gameRooms'[r]
              IN  /\ (a.ai # 0 /\ b.ai = 0)
                     => /\ b.gameState = a.gameState
                        /\ timers' = clearInterval(timers, a.ai)
                        /\ detachAIAgentFromRoom(gameRooms', timers', r)
                              = [rooms |-> gameRooms', timers |-> timers']
                  /\ (a.ai = 0 /\ b.gameState.player2.vy # a.gameState.player2.vy)
                     => \E s \in Sockets, key \in KeyInputs :
                           KeyPressK(s, key) \/ KeyReleaseK(s, key)]_vars

(* The second human has just joined a room whose agent had pressed a key:   *)
(* the agent is gone and the right paddle still carries its intent          *)
C28_Witness ==
    /\ IsK
    /\ events = 1
    /\ \E r \in DOMAIN gameRooms, m \in Assignments(emitted) :
          /\ m.roomId = r
          /\ m.playersInRoom = 2
          /\ gameRooms[r].ai = 0
          /\ \A h \in DOMAIN timers : timers[h].room # r
          /\ gameRooms[r].gameState.player2.vy # 0
          /\ gameRooms[r].gameState.player1.vy = 0

(* C29: in the keyboard build each room's humanCount is the number of its   *)
(* players entries that are not the AI, and room.ai is set exactly when     *)
(* players holds one AI entry and the timer of that agent is live           *)
C29_CountsAgree ==
    IsK =>
       \A r \in DOMAIN gameRooms :
           LET room == gameRooms[r]
               robots == {i \in 1..Len(room.players) : room.players[i].isAI}
           IN  /\ room.humanCount = Len(room.players) - Cardinality(robots)
               /\ room.ai # 0 <=> /\ Cardinality(robots) = 1
                                  /\ room.ai \in DOMAIN timers
                                  /\ timers[room.ai].room = r
                                  /\ \A i \in robots : room.players[i].id = timers[room.ai].ai.id

(* One of two humans has just disconnected and the agent was attached again *)
C29_Witness ==
    /\ IsK
    /\ \E s \in Sockets : sockets[s].status = "closed"
    /\ \E r \in DOMAIN gameRooms :
          /\ \E m \in emitted : m.ev = "playerDisconnected" /\ sockets[m.to].roomId = r
          /\ gameRooms[r].humanCount = 1
          /\ Len(gameRooms[r].players) = 2
          /\ gameRooms[r].ai \in DOMAIN timers

============================================================================
